---- MODULE Spec2Model ----
(***************************************************************************)
(* Model of tools/objc-summarizer-v2.py, the pattern-based Objective-C     *)
(* summarizer: main, summarize_objc_file (outline mode) and generate_map   *)
(* (map mode), with the regular expressions they scan the text with.       *)
(*                                                                         *)
(* A source line is the sequence of its lexical tokens, the pieces the     *)
(* patterns separate by whitespace; the file text is the sequence of its   *)
(* lines, as content.split gives them.  Every pattern is an operator on    *)
(* token sequences that matches what the regular expression matches.       *)
(* An output line is a record [indent, text, line]: text is the token      *)
(* sequence printed and line the number printed after "// Line:" (0 when   *)
(* the line prints no number).                                             *)
(***************************************************************************)
EXTENDS Integers, Sequences, FiniteSets

\* ------------------------------------------------------------------ bounds
MaxLines == 4

\* ------------------------------------------------------------ input domain
Prog == "objc-summarizer-v2.py"
MapFlag == "--map"
Path == "Foo.m"

\* Tokens matched by \w+ (names).
Idents == {"Foo", "Bar", "P", "NSString", "doThing", "run"}
\* Tokens of the form "(...)" with a non-empty inside.
Parens == {"(Cat)", "(void)", "(nonatomic)"}
\* Tokens of the form "<...>" with a non-empty inside.
AngleGroups == {"<P>"}
Terminators == {"{", ";"}
OpenerKeywords == {"@interface", "@implementation", "@protocol"}

LBlank == << >>
LInterface == <<"@interface", "Foo", ":", "Bar", "<P>">>
LInterfaceCat == <<"@interface", "Foo", "(Cat)">>
LImplementation == <<"@implementation", "Foo">>
LImplementationCat == <<"@implementation", "Foo", "(Cat)">>
LProtocol == <<"@protocol", "P">>
LMethod == <<"-", "(void)", "doThing", ";">>
LProperty == <<"@property", "(nonatomic)", "NSString", "*name", ";">>
LEnd == <<"@end">>
LCommentedInterface == <<"//", "@interface", "Foo">>
LMethodImplProtocol == <<"-", "(void)", "run", ";", "@implementation", "Foo", "@protocol", "P">>
LDanglingProtocol == <<"@protocol">>

LineCatalogue ==
  {LBlank, LInterface, LInterfaceCat, LImplementation, LImplementationCat,
   LProtocol, LMethod, LProperty, LEnd, LCommentedInterface,
   LMethodImplProtocol, LDanglingProtocol}

RECURSIVE SeqsUpTo(_, _)
SeqsUpTo(S, n) ==
  IF n = 0 THEN {<< >>}
  ELSE LET shorter == SeqsUpTo(S, n - 1)
       IN shorter \cup {Append(s, x) : s \in {t \in shorter : Len(t) = n - 1}, x \in S}

\* The texts read from disk: content.split('\n') has at least one line.
Files == SeqsUpTo(LineCatalogue, MaxLines) \ {<< >>}

VARIABLES argv, fileExists, content, pc, stdout, stderr, exitStatus

vars == <<argv, fileExists, content, pc, stdout, stderr, exitStatus>>

\* --------------------------------------------------------------- utilities
Min(S) == CHOOSE x \in S : \A y \in S : x <= y

OutLine(indent, text, line) == [indent |-> indent, text |-> text, line |-> line]

ParenInner(t) ==
  CASE t = "(Cat)" -> "Cat"
    [] t = "(void)" -> "void"
    [] t = "(nonatomic)" -> "nonatomic"
    [] OTHER -> t

\* stripped.startswith('//') or stripped.startswith('#')
IsCommentLine(line) == Len(line) > 0 /\ line[1] \in {"//", "#"}

\* lines[j].strip() == '@end'
IsBareEnd(line) == line = <<"@end">>

\* ------------------------------------------------- extract_methods_from_source
\* method_pattern = ^[\s]*([+-])\s*\(([^)]+)\)\s*([^{;]+?)(?:\s*\{|\s*;)
\* Index of the token that ends the signature ("{" or ";"), 0 when none.
MethodTerminator(line) ==
  LET S == {k \in 4..Len(line) : line[k] \in Terminators}
  IN IF S = {} THEN 0 ELSE Min(S)

MethodMatches(line) ==
  /\ Len(line) >= 4
  /\ line[1] \in {"+", "-"}
  /\ line[2] \in Parens
  /\ line[3] \notin Terminators
  /\ MethodTerminator(line) # 0

MethodRecord(line, n) ==
  [prefix |-> line[1],
   return_type |-> ParenInner(line[2]),
   signature |-> SubSeq(line, 3, MethodTerminator(line) - 1),
   line |-> n]

RECURSIVE ExtractMethodsFrom(_, _)
ExtractMethodsFrom(lines, i) ==
  IF i > Len(lines) THEN << >>
  ELSE (IF ~IsCommentLine(lines[i]) /\ MethodMatches(lines[i])
        THEN <<MethodRecord(lines[i], i)>> ELSE << >>)
       \o ExtractMethodsFrom(lines, i + 1)

extract_methods_from_source(lines) == ExtractMethodsFrom(lines, 1)

\* ---------------------------------------------- extract_properties_from_source
\* property_pattern = ^\s*@property\s*(\([^)]*\))?\s*([^;]+);
PropertyTerminator(line) ==
  LET S == {k \in 2..Len(line) : line[k] = ";"}
  IN IF S = {} THEN 0 ELSE Min(S)

PropertyMatches(line) ==
  /\ Len(line) >= 3
  /\ line[1] = "@property"
  /\ PropertyTerminator(line) >= 3

\* The attribute group is taken only when a declaration remains after it.
PropertyRecord(line, n) ==
  LET t == PropertyTerminator(line)
      hasAttr == line[2] \in Parens /\ t >= 4
  IN [attributes |-> IF hasAttr THEN <<line[2]>> ELSE << >>,
      declaration |-> SubSeq(line, IF hasAttr THEN 3 ELSE 2, t - 1),
      line |-> n]

RECURSIVE ExtractPropertiesFrom(_, _)
ExtractPropertiesFrom(lines, i) ==
  IF i > Len(lines) THEN << >>
  ELSE (IF PropertyMatches(lines[i])
        THEN <<PropertyRecord(lines[i], i)>> ELSE << >>)
       \o ExtractPropertiesFrom(lines, i + 1)

extract_properties_from_source(lines) == ExtractPropertiesFrom(lines, 1)

\* ------------------------------------------------------- the block patterns
\* re.search of  kw\s+(\w+)  in one line: position of the first match, or 0.
KeywordMatch(line, kw) ==
  LET S == {p \in 1..(Len(line) - 1) : line[p] = kw /\ line[p + 1] \in Idents}
  IN IF S = {} THEN 0 ELSE Min(S)

\* interface_pattern = @interface\s+(\w+)(?:\s*:\s*(\w+))?(?:\s*<([^>]+)>)?
interface_pattern(line) == KeywordMatch(line, "@interface")

InterfaceHasSuper(line, p) ==
  p + 3 <= Len(line) /\ line[p + 2] = ":" /\ line[p + 3] \in Idents

InterfaceSuperclass(line, p) ==
  IF InterfaceHasSuper(line, p) THEN line[p + 3] ELSE "NSObject"

InterfaceProtocols(line, p) ==
  LET q == IF InterfaceHasSuper(line, p) THEN p + 4 ELSE p + 2
  IN IF q <= Len(line) /\ line[q] \in AngleGroups THEN <<line[q]>> ELSE << >>

\* implementation_pattern = @implementation\s+(\w+)
implementation_pattern(line) == KeywordMatch(line, "@implementation")

\* category_pattern = @(?:interface|implementation)\s+(\w+)\s*\(([^)]*)\)
category_pattern(line) ==
  LET S == {p \in 1..(Len(line) - 2) :
              /\ line[p] \in {"@interface", "@implementation"}
              /\ line[p + 1] \in Idents
              /\ line[p + 2] \in Parens}
  IN IF S = {} THEN 0 ELSE Min(S)

\* protocol_pattern = @protocol\s+(\w+)
protocol_pattern(line) == KeywordMatch(line, "@protocol")

\* ---------------------------------------------------- summarize_objc_file
\* "Find the next @end": 1-based line of the first bare @end after line n,
\* n itself when there is none before end of file.
RECURSIVE ScanForEnd(_, _, _)
ScanForEnd(lines, j, default) ==
  IF j > Len(lines) THEN default
  ELSE IF IsBareEnd(lines[j]) THEN j
  ELSE ScanForEnd(lines, j + 1, default)

\* Variant: an opener without a closer runs to the end of the text.
NextEndLineToEof(lines, n) == ScanForEnd(lines, n + 1, Len(lines) + 1)

NextEndLine(lines, n) == ScanForEnd(lines, n + 1, n)

\* [x for x in decls if line_num < x['line'] < next_end_line]
Within(decls, lo, hi) == SelectSeq(decls, LAMBDA d : lo < d.line /\ d.line < hi)

RECURSIVE PrintProperties(_)
PrintProperties(props) ==
  IF props = << >> THEN << >>
  ELSE <<OutLine(2, <<"//", "Line:">>, Head(props).line),
         OutLine(2, <<"@property">> \o Head(props).attributes
                    \o Head(props).declaration \o <<";">>, 0)>>
       \o PrintProperties(Tail(props))

RECURSIVE PrintMethods(_)
PrintMethods(ms) ==
  IF ms = << >> THEN << >>
  ELSE <<OutLine(2, <<"//", "Line:">>, Head(ms).line),
         OutLine(2, <<Head(ms).prefix, "(", Head(ms).return_type, ")">>
                    \o Head(ms).signature \o <<";">>, 0)>>
       \o PrintMethods(Tail(ms))

EndAndBlank == <<OutLine(0, <<"@end">>, 0), OutLine(0, << >>, 0)>>

InterfaceSection(lines, n, methods, properties) ==
  LET line == lines[n]
      p == interface_pattern(line)
      next_end_line == NextEndLine(lines, n)
  IN <<OutLine(0, <<"//", "Line:">>, n),
       OutLine(0, <<"@interface", line[p + 1], ":", InterfaceSuperclass(line, p)>>
                  \o InterfaceProtocols(line, p), 0)>>
     \o PrintProperties(Within(properties, n, next_end_line))
     \o PrintMethods(Within(methods, n, next_end_line))
     \o EndAndBlank

ImplementationSection(lines, n, methods) ==
  LET line == lines[n]
      p == implementation_pattern(line)
      next_end_line == NextEndLine(lines, n)
  IN <<OutLine(0, <<"//", "Line:">>, n),
       OutLine(0, <<"@implementation", line[p + 1]>>, 0)>>
     \o PrintMethods(Within(methods, n, next_end_line))
     \o EndAndBlank

\* The tokens of Parens have a non-empty inside, so the '(anonymous)' default
\* for an empty category name is not taken.
CategorySection(lines, n) ==
  LET line == lines[n]
      p == category_pattern(line)
  IN <<OutLine(0, <<"//", "Line:">>, n),
       OutLine(0, <<"@interface", line[p + 1], "(Category:", ParenInner(line[p + 2]), ")">>, 0)>>
     \o EndAndBlank

ProtocolSection(lines, n) ==
  LET line == lines[n]
      p == protocol_pattern(line)
  IN <<OutLine(0, <<"//", "Line:">>, n),
       OutLine(0, <<"@protocol", line[p + 1]>>, 0)>>
     \o EndAndBlank

\* Variant: the trailing @end branch prints the closer it meets.
SummarizeLineEchoEnd(lines, n, methods, properties) ==
  IF interface_pattern(lines[n]) # 0 THEN InterfaceSection(lines, n, methods, properties)
  ELSE IF implementation_pattern(lines[n]) # 0 THEN ImplementationSection(lines, n, methods)
  ELSE IF category_pattern(lines[n]) # 0 THEN CategorySection(lines, n)
  ELSE IF protocol_pattern(lines[n]) # 0 THEN ProtocolSection(lines, n)
  ELSE IF IsBareEnd(lines[n]) THEN EndAndBlank
  ELSE << >>

\* One iteration of the loop over the lines: what it prints for line n.
SummarizeLine(lines, n, methods, properties) ==
  IF interface_pattern(lines[n]) # 0 THEN InterfaceSection(lines, n, methods, properties)
  ELSE IF implementation_pattern(lines[n]) # 0 THEN ImplementationSection(lines, n, methods)
  ELSE IF category_pattern(lines[n]) # 0 THEN CategorySection(lines, n)
  ELSE IF protocol_pattern(lines[n]) # 0 THEN ProtocolSection(lines, n)
  ELSE << >>

RECURSIVE SummarizeLoop(_, _, _, _)
SummarizeLoop(lines, n, methods, properties) ==
  IF n > Len(lines) THEN << >>
  ELSE SummarizeLine(lines, n, methods, properties)
       \o SummarizeLoop(lines, n + 1, methods, properties)

Preamble(path) ==
  <<OutLine(0, <<"//", "SyntaxBridge Summary">>, 0),
    OutLine(0, <<"//", "File:", path>>, 0),
    OutLine(0, <<"//", "-----">>, 0),
    OutLine(0, << >>, 0)>>

OutlineText(path, lines) ==
  Preamble(path)
  \o SummarizeLoop(lines, 1, extract_methods_from_source(lines),
                   extract_properties_from_source(lines))

\* ------------------------------------------------------------ generate_map
\* The whole text as one token sequence, "\n" between consecutive lines.
RECURSIVE Flatten(_)
Flatten(lines) ==
  IF Len(lines) = 1 THEN lines[1]
  ELSE lines[1] \o <<"\n">> \o Flatten(Tail(lines))

\* First token after position p that is not a line break, 0 when none: the
\* \s+ of the patterns runs over line breaks when the whole text is scanned.
NextToken(flat, p) ==
  LET S == {q \in (p + 1)..Len(flat) : flat[q] # "\n"}
  IN IF S = {} THEN 0 ELSE Min(S)

\* content[:match.start()].count('\n') + 1
LineOfPosition(flat, p) == Cardinality({q \in 1..(p - 1) : flat[q] = "\n"}) + 1

\* for match in re.finditer(kw\s+(\w+), content): symbols.append(...)
RECURSIVE FindAll(_, _, _, _)
FindAll(flat, p, kw, type) ==
  IF p > Len(flat) THEN << >>
  ELSE LET q == NextToken(flat, p)
       IN IF flat[p] = kw /\ q # 0 /\ flat[q] \in Idents
          THEN <<[name |-> <<flat[q]>>, type |-> type, line |-> LineOfPosition(flat, p)]>>
               \o FindAll(flat, q + 1, kw, type)
          ELSE FindAll(flat, p + 1, kw, type)

RECURSIVE MethodSymbols(_)
MethodSymbols(ms) ==
  IF ms = << >> THEN << >>
  ELSE <<[name |-> <<Head(ms).prefix>> \o Head(ms).signature,
          type |-> "method", line |-> Head(ms).line]>>
       \o MethodSymbols(Tail(ms))

RECURSIVE PropertySymbols(_)
PropertySymbols(props) ==
  IF props = << >> THEN << >>
  ELSE <<[name |-> Head(props).declaration, type |-> "property", line |-> Head(props).line]>>
       \o PropertySymbols(Tail(props))

\* Variant: property declarations are appended as records too.
CollectSymbolsWithProperties(lines) ==
  LET flat == Flatten(lines)
  IN FindAll(flat, 1, "@interface", "interface")
     \o FindAll(flat, 1, "@implementation", "implementation")
     \o FindAll(flat, 1, "@protocol", "protocol")
     \o MethodSymbols(extract_methods_from_source(lines))
     \o PropertySymbols(extract_properties_from_source(lines))

\* The symbols in the order they are appended, before the sort.
CollectSymbols(lines) ==
  LET flat == Flatten(lines)
  IN FindAll(flat, 1, "@interface", "interface")
     \o FindAll(flat, 1, "@implementation", "implementation")
     \o FindAll(flat, 1, "@protocol", "protocol")
     \o MethodSymbols(extract_methods_from_source(lines))

\* list.sort(key=line): a stable sort, as an insertion sort that places each
\* element after the elements with an equal key.
\* Variant: an element is placed before the elements with an equal key.
RECURSIVE InsertByLineBeforeEqual(_, _)
InsertByLineBeforeEqual(sorted, x) ==
  IF sorted = << >> THEN <<x>>
  ELSE IF x.line <= Head(sorted).line THEN <<x>> \o sorted
  ELSE <<Head(sorted)>> \o InsertByLineBeforeEqual(Tail(sorted), x)

RECURSIVE InsertByLine(_, _)
InsertByLine(sorted, x) ==
  IF sorted = << >> THEN <<x>>
  ELSE IF x.line < Head(sorted).line THEN <<x>> \o sorted
  ELSE <<Head(sorted)>> \o InsertByLine(Tail(sorted), x)

RECURSIVE SortByLine(_)
SortByLine(syms) ==
  IF syms = << >> THEN << >>
  ELSE InsertByLine(SortByLine(SubSeq(syms, 1, Len(syms) - 1)), syms[Len(syms)])

MapSymbols(lines) == SortByLine(CollectSymbols(lines))

\* A printed JSON document: the function from its field names to its values.
EmptyDocument == [f \in {} |-> << >>]
MapDocument(path, lines) == [filePath |-> path, symbols |-> MapSymbols(lines)]

\* --------------------------------------------------------------- the program
\* sys.argv[k] is argv[k + 1].
ArgvChoices == {<<Prog>>, <<Prog, MapFlag>>, <<Prog, Path>>, <<Prog, MapFlag, Path>>}

HasPath(a) == Len(a) = 3 \/ (Len(a) = 2 /\ a[2] # MapFlag)

Init ==
  /\ argv \in ArgvChoices
  /\ fileExists \in BOOLEAN
  /\ ~HasPath(argv) => ~fileExists
  /\ content \in (IF fileExists THEN Files ELSE {<< >>})
  /\ pc = "start"
  /\ stdout = << >>
  /\ stderr = << >>
  /\ exitStatus = 0

\* main: len(sys.argv) < 2
MainUsage ==
  /\ pc = "start"
  /\ Len(argv) < 2
  /\ stderr' = Append(stderr, <<"Usage:", Prog, "<file-path>", "OR", Prog, MapFlag, "<file-path>">>)
  /\ exitStatus' = 1
  /\ pc' = "done"
  /\ UNCHANGED <<argv, fileExists, content, stdout>>

\* main: sys.argv[1] == "--map" and len(sys.argv) < 3
MainMapUsage ==
  /\ pc = "start"
  /\ Len(argv) >= 2
  /\ argv[2] = MapFlag
  /\ Len(argv) < 3
  /\ stderr' = Append(stderr, <<"Usage:", Prog, MapFlag, "<file-path>">>)
  /\ exitStatus' = 1
  /\ pc' = "done"
  /\ UNCHANGED <<argv, fileExists, content, stdout>>

\* main: generate_map(sys.argv[2])
generate_map ==
  /\ pc = "start"
  /\ Len(argv) >= 3
  /\ argv[2] = MapFlag
  /\ stdout' = IF ~fileExists
               THEN Append(stdout, EmptyDocument)
               ELSE Append(stdout, MapDocument(argv[3], content))
  /\ pc' = "done"
  /\ UNCHANGED <<argv, fileExists, content, stderr, exitStatus>>

\* main: summarize_objc_file(sys.argv[1])
summarize_objc_file ==
  /\ pc = "start"
  /\ Len(argv) >= 2
  /\ argv[2] # MapFlag
  /\ IF ~fileExists
     THEN /\ stderr' = Append(stderr, <<"Error:", "File not found:", argv[2]>>)
          /\ stdout' = stdout
     ELSE /\ stdout' = stdout \o OutlineText(argv[2], content)
          /\ stderr' = stderr
  /\ pc' = "done"
  /\ UNCHANGED <<argv, fileExists, content, exitStatus>>

Next == MainUsage \/ MainMapUsage \/ generate_map \/ summarize_objc_file

Spec == Init /\ [][Next]_vars

\* ------------------------------------------------------------ run predicates
OutlineDone == pc = "done" /\ Len(argv) >= 2 /\ argv[2] # MapFlag
MapDone == pc = "done" /\ Len(argv) >= 3 /\ argv[2] = MapFlag

TypeOK ==
  /\ pc \in {"start", "done"}
  /\ exitStatus \in {0, 1}
  /\ fileExists \in BOOLEAN

\* ------------------------------------------------- reading the printed text
Max(S) == CHOOSE x \in S : \A y \in S : x >= y

IsTopLineno(o) == o.indent = 0 /\ o.text = <<"//", "Line:">>
IsMemberLineno(o) == o.indent = 2 /\ o.text = <<"//", "Line:">>
IsHeaderOut(o) == o.indent = 0 /\ Len(o.text) > 0 /\ o.text[1] \in OpenerKeywords
IsEndOut(o) == o.indent = 0 /\ o.text = <<"@end">>
IsBlankOut(o) == o.text = << >>
IsMethodOut(o) == o.indent = 2 /\ Len(o.text) > 0 /\ o.text[1] \in {"+", "-"}
IsPropertyOut(o) == o.indent = 2 /\ Len(o.text) > 0 /\ o.text[1] = "@property"

\* The printed lines after the four-line preamble.
OutlineBody == SubSeq(stdout, 5, Len(stdout))

\* Positions in the printed text where the section of source line a starts.
SectionStarts(out, a) == {j \in 1..Len(out) : IsTopLineno(out[j]) /\ out[j].line = a}

\* Position of the closer line that ends the section starting at j (0: none).
SectionClose(out, j) ==
  LET S == {k \in (j + 1)..Len(out) : IsEndOut(out[k])}
  IN IF S = {} THEN 0 ELSE Min(S)

\* A member of the given shape with source line d is printed in a's section.
MemberPrintedIn(out, a, d, IsShape(_)) ==
  \E j \in SectionStarts(out, a) :
    \E k \in (j + 1)..(SectionClose(out, j) - 2) :
      IsMemberLineno(out[k]) /\ out[k].line = d /\ IsShape(out[k + 1])

MethodPrintedIn(out, a, m) == MemberPrintedIn(out, a, m, IsMethodOut)
PropertyPrintedIn(out, a, q) == MemberPrintedIn(out, a, q, IsPropertyOut)

\* ----------------------------------------------------- reading the source
IsOpenerLine(line) ==
  \/ interface_pattern(line) # 0
  \/ implementation_pattern(line) # 0
  \/ category_pattern(line) # 0
  \/ protocol_pattern(line) # 0

OpenerLines(lines) == {a \in 1..Len(lines) : IsOpenerLine(lines[a])}
EndsAfter(lines, a) == {b \in (a + 1)..Len(lines) : IsBareEnd(lines[b])}
MethodLines(lines) ==
  {m \in 1..Len(lines) : ~IsCommentLine(lines[m]) /\ MethodMatches(lines[m])}
PropertyLines(lines) == {q \in 1..Len(lines) : PropertyMatches(lines[q])}

\* Blocks whose line range strictly contains line d.
Enclosing(lines, d) ==
  {a \in OpenerLines(lines) :
     EndsAfter(lines, a) # {} /\ a < d /\ d < Min(EndsAfter(lines, a))}

RanOutline == OutlineDone /\ fileExists
RanMap == MapDone /\ fileExists

\* ------------------------------------------------------------------ claims

\* C1: in outline mode, for every recognized block opener at line a whose
\* first bare @end after it is at line b, and every recognized method at
\* line m, the method is printed in that block's section iff a < m < b.
C1_Containment ==
  RanOutline =>
    \A a \in OpenerLines(content) : EndsAfter(content, a) # {} =>
      \A m \in MethodLines(content) :
        MethodPrintedIn(OutlineBody, a, m)
          <=> (a < m /\ m < Min(EndsAfter(content, a)))

\* C2: map mode on a path that does not exist ends with exit status zero and
\* prints a document with a filePath field holding the path and a symbols
\* field holding an empty list.
C2_MissingFileMap ==
  (MapDone /\ ~fileExists) =>
    /\ exitStatus = 0
    /\ Len(stdout) = 1
    /\ DOMAIN stdout[1] = {"filePath", "symbols"}
    /\ stdout[1].filePath = argv[3]
    /\ stdout[1].symbols = << >>

\* C3: outline mode on a path that does not exist writes an error message to
\* standard error, nothing to standard output, and ends with a non-zero exit
\* status.
C3_MissingFileOutline ==
  (OutlineDone /\ ~fileExists) =>
    /\ stderr # << >>
    /\ stdout = << >>
    /\ exitStatus # 0

\* Well-formed text: every line holds at most one opener keyword, followed by
\* its name on the same line, and every opener is followed by exactly one
\* bare closer line before the next opener or the end of the text, with no
\* closer before the first opener.
KeywordPositions(line) == {p \in 1..Len(line) : line[p] \in OpenerKeywords}

BlockLines(lines) == {a \in 1..Len(lines) : KeywordPositions(lines[a]) # {}}

WellFormed(lines) ==
  /\ \A i \in 1..Len(lines) :
       /\ Cardinality(KeywordPositions(lines[i])) <= 1
       /\ \A p \in KeywordPositions(lines[i]) :
            p < Len(lines[i]) /\ lines[i][p + 1] \in Idents
  /\ \A a \in BlockLines(lines) :
       LET later == {x \in BlockLines(lines) : x > a}
           stop == IF later = {} THEN Len(lines) + 1 ELSE Min(later)
       IN Cardinality({b \in (a + 1)..(stop - 1) : IsBareEnd(lines[b])}) = 1
  /\ \A b \in 1..Len(lines) :
       IsBareEnd(lines[b]) => \E a \in BlockLines(lines) : a < b

NumBlocks(lines) == Cardinality(BlockLines(lines))
NumMethods(lines) == Cardinality(MethodLines(lines))
NumProperties(lines) == Cardinality(PropertyLines(lines))

\* C4 as stated: for well-formed input the number of records in the symbols
\* list equals blocks + recognized methods + recognized properties.
C4_CountWithProperties ==
  (RanMap /\ WellFormed(content)) =>
    Len(stdout[1].symbols)
      = NumBlocks(content) + NumMethods(content) + NumProperties(content)

\* C4 amended: for well-formed input the number of records in the symbols
\* list equals blocks + recognized methods; properties yield no record.
C4_CountBlocksAndMethods ==
  (RanMap /\ WellFormed(content)) =>
    /\ Len(stdout[1].symbols) = NumBlocks(content) + NumMethods(content)
    /\ \A k \in 1..Len(stdout[1].symbols) :
         stdout[1].symbols[k].type \in {"interface", "implementation", "protocol", "method"}

C4_Witness ==
  /\ RanMap
  /\ WellFormed(content)
  /\ NumBlocks(content) > 0
  /\ NumMethods(content) > 0
  /\ NumProperties(content) > 0

SortedByLine(syms) ==
  \A i, j \in 1..Len(syms) : i < j => syms[i].line <= syms[j].line

TiesFollow(syms, Rank(_)) ==
  \A i, j \in 1..Len(syms) :
    (i < j /\ syms[i].line = syms[j].line) => Rank(syms[i].type) <= Rank(syms[j].type)

ClaimedRank(type) ==
  CASE type \in {"interface", "protocol"} -> 1
    [] type = "implementation" -> 2
    [] OTHER -> 3

AppendRank(type) ==
  CASE type = "interface" -> 1
    [] type = "implementation" -> 2
    [] type = "protocol" -> 3
    [] OTHER -> 4

\* C5 as stated: the symbols list is ordered by line ascending and symbols
\* of one line come block/protocol records first, then implementation
\* records, then method records.
C5_TieProtocolFirst ==
  RanMap =>
    /\ SortedByLine(stdout[1].symbols)
    /\ TiesFollow(stdout[1].symbols, ClaimedRank)

\* C5 amended: the symbols list is ordered by line ascending and symbols of
\* one line come interface records first, then implementation records, then
\* protocol records, then method records.
C5_TieAppendOrder ==
  RanMap =>
    /\ SortedByLine(stdout[1].symbols)
    /\ TiesFollow(stdout[1].symbols, AppendRank)

C5_Witness ==
  /\ RanMap
  /\ \E i, j \in 1..Len(stdout[1].symbols) :
       /\ i < j
       /\ stdout[1].symbols[i].line = stdout[1].symbols[j].line
       /\ stdout[1].symbols[i].type = "implementation"
       /\ stdout[1].symbols[j].type = "protocol"
  /\ \E i, j \in 1..Len(stdout[1].symbols) :
       /\ i < j
       /\ stdout[1].symbols[i].line < stdout[1].symbols[j].line
       /\ stdout[1].symbols[i].type = "method"
       /\ stdout[1].symbols[j].type = "interface"

\* The printed section of source line a is a header and a closer with nothing
\* between them: line comment, header, closer, blank line.
EmptySection(out, a) ==
  \A j \in SectionStarts(out, a) :
    /\ j + 3 <= Len(out)
    /\ IsHeaderOut(out[j + 1])
    /\ IsEndOut(out[j + 2])
    /\ IsBlankOut(out[j + 3])

Unterminated(lines) == {a \in OpenerLines(lines) : EndsAfter(lines, a) = {}}

\* C6: in outline mode a block opener with no bare @end line after it gets
\* endLine = startLine and its section is printed with no property and no
\* method, closed by a closer line, whatever declarations follow the opener;
\* the scan for the closer stops at the end of the text.
C6_DegenerateBlock ==
  RanOutline =>
    \A a \in Unterminated(content) :
      /\ NextEndLine(content, a) = a
      /\ SectionStarts(OutlineBody, a) # {}
      /\ EmptySection(OutlineBody, a)

C6_Witness ==
  /\ RanOutline
  /\ \E a \in Unterminated(content) :
       /\ interface_pattern(content[a]) # 0
       /\ \E m \in MethodLines(content) : m > a
       /\ \E q \in PropertyLines(content) : q > a

\* C7: every recognized method or property is printed under at most one
\* block: when several blocks satisfy startLine < line < endLine it is
\* printed only under the one whose opener is nearest before it.
C7_NearestBlockOnly ==
  RanOutline =>
    /\ \A m \in MethodLines(content) : \A a \in OpenerLines(content) :
         MethodPrintedIn(OutlineBody, a, m) =>
           Enclosing(content, m) # {} /\ a = Max(Enclosing(content, m))
    /\ \A q \in PropertyLines(content) : \A a \in OpenerLines(content) :
         PropertyPrintedIn(OutlineBody, a, q) =>
           Enclosing(content, q) # {} /\ a = Max(Enclosing(content, q))

\* C8: a source line whose trimmed form begins with // or # yields no hit:
\* no section in the outline and no record in the symbol map.
C8_CommentLinesSkipped ==
  \A i \in 1..Len(content) : IsCommentLine(content[i]) =>
    /\ RanOutline => SectionStarts(OutlineBody, i) = {}
    /\ RanMap => \A k \in 1..Len(stdout[1].symbols) : stdout[1].symbols[k].line # i

IsCategoryHeader(o) ==
  /\ IsHeaderOut(o)
  /\ Len(o.text) >= 3
  /\ o.text[3] = "(Category:"

\* C9: in outline mode an opener of the extension form (keyword, name,
\* parenthesized category name) is rendered with the category header and
\* never as a plain interface or implementation header.
C9_CategoryHeader ==
  RanOutline =>
    \A a \in 1..Len(content) : category_pattern(content[a]) # 0 =>
      \A j \in SectionStarts(OutlineBody, a) :
        j < Len(OutlineBody) /\ IsCategoryHeader(OutlineBody[j + 1])

\* The numbers printed in the top-level line comments, in printing order.
RECURSIVE TopLinenos(_)
TopLinenos(out) ==
  IF out = << >> THEN << >>
  ELSE (IF IsTopLineno(Head(out)) THEN <<Head(out).line>> ELSE << >>)
       \o TopLinenos(Tail(out))

RECURSIVE Ascending(_, _)
Ascending(S, from) ==
  IF S = {} THEN << >>
  ELSE IF from \in S THEN <<from>> \o Ascending(S \ {from}, from + 1)
  ELSE Ascending(S, from + 1)

\* The printed text is a run of sections: line comment, header, pairs of
\* (indented line comment, indented member), one closer, one blank line.
RECURSIVE SectionsOnly(_)
SectionsOnly(out) ==
  IF out = << >> THEN TRUE
  ELSE LET e == SectionClose(out, 1)
       IN /\ IsTopLineno(out[1])
          /\ e >= 3
          /\ IsHeaderOut(out[2])
          /\ (e - 3) % 2 = 0
          /\ \A k \in 3..(e - 1) :
               IF (k - 3) % 2 = 0 THEN IsMemberLineno(out[k])
               ELSE IsMethodOut(out[k]) \/ IsPropertyOut(out[k])
          /\ e + 1 <= Len(out)
          /\ IsBlankOut(out[e + 1])
          /\ SectionsOnly(SubSeq(out, e + 2, Len(out)))

CountOut(out, IsShape(_)) == Cardinality({k \in 1..Len(out) : IsShape(out[k])})

\* C10: the outline holds exactly one section per recognized opener line, in
\* source order; every section is its header, its members and exactly one
\* closer line, so closer lines and header lines are equally many; a bare
\* @end source line prints nothing.
C10_OneSectionPerOpener ==
  RanOutline =>
    /\ SubSeq(stdout, 1, 4) = Preamble(argv[2])
    /\ TopLinenos(OutlineBody) = Ascending(OpenerLines(content), 1)
    /\ SectionsOnly(OutlineBody)
    /\ CountOut(OutlineBody, IsEndOut) = CountOut(OutlineBody, IsHeaderOut)
    /\ CountOut(OutlineBody, IsHeaderOut) = Cardinality(OpenerLines(content))

C10_Witness ==
  /\ RanOutline
  /\ Cardinality(OpenerLines(content)) >= 2
  /\ \E b \in 1..Len(content) : IsBareEnd(content[b])
  /\ CountOut(OutlineBody, IsMethodOut) > 0

====
